---- MODULE Spec2Model ----
(***************************************************************************)
(* Model of src/src/deploy.rs: deploy_profile (simple mode and the         *)
(* magic-rollback race between the activation-awaiting task and the wait   *)
(* command), confirm_profile, and the two command builders.                *)
(*                                                                         *)
(* The remote ssh processes are the environment: each one, once started,   *)
(* terminates with an exit code, without a code, or with an I/O error.     *)
(* The orchestrating task and the spawned activation-awaiting task are two *)
(* processes that interleave freely (tokio runs them on a thread pool).    *)
(***************************************************************************)
EXTENDS Integers, Sequences, FiniteSets, TLC

\* Exit codes range over 0..MaxCode.
MaxCode == 2

\* ExitStatus::code() == None (terminated without a code, e.g. by a signal).
NoCode == -1

ExitCodes == 0..MaxCode

VARIABLES
    merged_settings,  \* deploy_data.merged_settings; an Option is a set
    deploy_data,      \* debug_logs, log_dir, profile closure path
    deploy_defs,      \* sudo, profile_path
    self_activate_command,  \* the built activate command, <<>> before
    self_wait_command,      \* the built wait command, <<>> before
    pc,               \* position of deploy_profile
    task,             \* position of the activation-awaiting task
    ssh_activate,     \* the activate ssh process
    ssh_wait,         \* the wait ssh process
    ssh_confirm,      \* the confirm (rm) ssh process
    maybe_err,        \* the task's maybe_err, as a set (Option)
    ch_activate,      \* oneshot (send_activate, recv_activate)
    ch_activated,     \* oneshot (send_activated, recv_activated)
    c,                \* result of confirm_profile, as a set (unset / set)
    result,           \* value returned by deploy_profile
    calls,            \* how often each remote command was started
    events            \* history: order of process exits and select outcomes

inputs == <<merged_settings, deploy_data, deploy_defs>>

built == <<self_activate_command, self_wait_command>>

vars == <<inputs, built, pc, task, ssh_activate, ssh_wait, ssh_confirm,
          maybe_err, ch_activate, ch_activated, c, result, calls, events>>

----------------------------------------------------------------------------
\* Values

Proc(st, code) == [st |-> st, code |-> code]
Idle == Proc("idle", NoCode)
Running == Proc("running", NoCode)
IoErr == Proc("ioerr", NoCode)
Exited(code) == Proc("exited", code)

Terminated(p) == p.st \in {"exited", "ioerr"}

\* every way a started process can end
Outcomes == {Exited(k) : k \in ExitCodes} \cup {Exited(NoCode), IoErr}

Res(tag, inner, code) == [tag |-> tag, inner |-> inner, code |-> code]
Pending == Res("Pending", "", NoCode)
Ok == Res("Ok", "", NoCode)

\* a oneshot channel: the value in flight and both ends
Channel == [val |-> {}, tx |-> "alive", rx |-> "alive"]
NoChannel == [val |-> {}, tx |-> "none", rx |-> "none"]

\* Option::unwrap_or
unwrap_or(opt, default) == IF opt = {} THEN default ELSE CHOOSE x \in opt : TRUE

\* magic_rollback with the default of a disabled protocol
magic_rollback_DefaultFalse == unwrap_or(merged_settings.magic_rollback, FALSE)

temp_path == unwrap_or(merged_settings.temp_path, "/tmp")
confirm_timeout == unwrap_or(merged_settings.confirm_timeout, 30)
magic_rollback == unwrap_or(merged_settings.magic_rollback, TRUE)
auto_rollback == unwrap_or(merged_settings.auto_rollback, TRUE)

\* A string is the sequence of the pieces it was formatted from: the literal
\* pieces of a format string and the values put into its `{}` holes.
Lit(s) == [lit |-> TRUE, s |-> s]
Arg(s) == [lit |-> FALSE, s |-> s]

\* the values deploy_profile passes to the two builders
ActivateCommandData ==
    [sudo |-> deploy_defs.sudo,
     profile_path |-> deploy_defs.profile_path,
     closure |-> deploy_data.closure,
     auto_rollback |-> auto_rollback,
     temp_path |-> temp_path,
     confirm_timeout |-> confirm_timeout,
     magic_rollback |-> magic_rollback,
     debug_logs |-> deploy_data.debug_logs,
     log_dir |-> deploy_data.log_dir]

WaitCommandData ==
    [sudo |-> deploy_defs.sudo,
     closure |-> deploy_data.closure,
     temp_path |-> temp_path,
     debug_logs |-> deploy_data.debug_logs,
     log_dir |-> deploy_data.log_dir]

\* the flags both builders put in front of the mandatory segment
CommonPrefix(data) ==
    LET s0 == <<Arg(data.closure), Lit("/activate-rs")>>
        s1 == IF data.debug_logs THEN s0 \o <<Lit(" --debug-logs")>> ELSE s0
    IN  IF data.log_dir # {}
        THEN s1 \o <<Lit(" --log-dir "), Arg(CHOOSE d \in data.log_dir : TRUE)>>
        ELSE s1

\* format!("{} {}", sudo_cmd, cmd) when a sudo prefix is present
WithSudo(sudo, cmd) ==
    IF sudo # {} THEN <<Arg(CHOOSE x \in sudo : TRUE), Lit(" ")>> \o cmd
    ELSE cmd

\* build_activate_command with --auto-rollback put before --magic-rollback
build_activate_command_AutoFirst(data) ==
    LET s2 == CommonPrefix(data)
        s3 == s2 \o <<Lit(" --temp-path '"), Arg(data.temp_path),
                      Lit("' activate '"), Arg(data.closure),
                      Lit("' '"), Arg(data.profile_path), Lit("'")>>
        s4 == s3 \o <<Lit(" --confirm-timeout "),
                      Arg(ToString(data.confirm_timeout))>>
        s5 == IF data.auto_rollback
              THEN s4 \o <<Lit(" --auto-rollback")>> ELSE s4
        s6 == IF data.magic_rollback
              THEN s5 \o <<Lit(" --magic-rollback")>> ELSE s5
    IN  WithSudo(data.sudo, s6)

\* build_activate_command with the prefix joined by format!("{}{}", ..)
build_activate_command_SudoNoSpace(data) ==
    LET s2 == CommonPrefix(data)
        s3 == s2 \o <<Lit(" --temp-path '"), Arg(data.temp_path),
                      Lit("' activate '"), Arg(data.closure),
                      Lit("' '"), Arg(data.profile_path), Lit("'")>>
        s4 == s3 \o <<Lit(" --confirm-timeout "),
                      Arg(ToString(data.confirm_timeout))>>
        s5 == IF data.magic_rollback
              THEN s4 \o <<Lit(" --magic-rollback")>> ELSE s4
        s6 == IF data.auto_rollback
              THEN s5 \o <<Lit(" --auto-rollback")>> ELSE s5
    IN  IF data.sudo # {}
        THEN <<Arg(CHOOSE x \in data.sudo : TRUE)>> \o s6
        ELSE s6

build_activate_command(data) ==
    LET s2 == CommonPrefix(data)
        s3 == s2 \o <<Lit(" --temp-path '"), Arg(data.temp_path),
                      Lit("' activate '"), Arg(data.closure),
                      Lit("' '"), Arg(data.profile_path), Lit("'")>>
        s4 == s3 \o <<Lit(" --confirm-timeout "),
                      Arg(ToString(data.confirm_timeout))>>
        s5 == IF data.magic_rollback
              THEN s4 \o <<Lit(" --magic-rollback")>> ELSE s4
        s6 == IF data.auto_rollback
              THEN s5 \o <<Lit(" --auto-rollback")>> ELSE s5
    IN  WithSudo(data.sudo, s6)

\* build_wait_command with the activate builder's --magic-rollback kept
build_wait_command_WithMagicRollback(data) ==
    LET s2 == CommonPrefix(data)
        s3 == s2 \o <<Lit(" --temp-path '"), Arg(data.temp_path),
                      Lit("' wait '"), Arg(data.closure), Lit("'")>>
    IN  WithSudo(data.sudo, s3 \o <<Lit(" --magic-rollback")>>)

build_wait_command(data) ==
    LET s2 == CommonPrefix(data)
        s3 == s2 \o <<Lit(" --temp-path '"), Arg(data.temp_path),
                      Lit("' wait '"), Arg(data.closure), Lit("'")>>
    IN  WithSudo(data.sudo, s3)

\* the merged settings a call can be given
Settings ==
    [temp_path : {{}, {"/var/tmp"}},
     confirm_timeout : {{}, {60}},
     magic_rollback : {{}, {TRUE}, {FALSE}},
     auto_rollback : {{}, {TRUE}, {FALSE}}]

----------------------------------------------------------------------------
\* the state of a call before its first step
Start ==
    /\ self_activate_command = <<>>
    /\ self_wait_command = <<>>
    /\ pc = "start"
    /\ task = "none"
    /\ ssh_activate = Idle
    /\ ssh_wait = Idle
    /\ ssh_confirm = Idle
    /\ maybe_err = {}
    /\ ch_activate = NoChannel
    /\ ch_activated = NoChannel
    /\ c = {}
    /\ result = Pending
    /\ calls = [activate |-> 0, wait |-> 0, confirm |-> 0]
    /\ events = <<>>

\* a call with any merged settings, for one node and profile
Init ==
    /\ merged_settings \in Settings
    /\ deploy_data = [debug_logs |-> TRUE,
                      log_dir |-> {"/tmp/something.txt"},
                      closure |-> "/nix/store/blah/etc"]
    /\ deploy_defs = [sudo |-> {"sudo -u test"},
                      profile_path |-> "/blah/profiles/test"]
    /\ Start

\* a call with any merged settings and any option values of the builders
InitBuilders ==
    /\ merged_settings \in Settings
    /\ deploy_data \in [debug_logs : BOOLEAN,
                         log_dir : {{}, {"/tmp/something.txt"}},
                         closure : {"/nix/store/blah/etc"}]
    /\ deploy_defs \in [sudo : {{}, {"sudo -u test"}},
                         profile_path : {"/blah/profiles/test"}]
    /\ Start

----------------------------------------------------------------------------
\* Pure parts of the code

\* SimpleResult with `Some(0) | None => ()`
SimpleResult_AbsentCodeOk(p) ==
    IF p.st = "ioerr" THEN Res("SSHActivateError", "", NoCode)
    ELSE IF p.code <= 0 THEN Ok
    ELSE Res("SSHActivateExitError", "", p.code)

\* simple mode: the outcome of `.status().await` mapped to the return value
SimpleResult(p) ==
    IF p.st = "ioerr" THEN Res("SSHActivateError", "", NoCode)
    ELSE IF p.code = 0 THEN Ok
    ELSE Res("SSHActivateExitError", "", p.code)

\* the task's maybe_err: None (the empty set) for exit code 0
TaskMaybeErr(o) ==
    IF o.st = "ioerr" THEN {Res("SSHActivateError", "", NoCode)}
    ELSE IF o.code = 0 THEN {}
    ELSE {Res("SSHActivateExitError", "", o.code)}

\* WaitBranch with the exit code of the wait command not looked at
WaitBranch_AnyExitOk(x) ==
    IF x.st = "ioerr" THEN Res("SSHWaitError", "", NoCode) ELSE Ok

\* WaitBranch with the exit code left out of SSHWaitExitError
WaitBranch_CodeDropped(x) ==
    IF x.st = "ioerr" THEN Res("SSHWaitError", "", NoCode)
    ELSE IF x.code = 0 THEN Ok
    ELSE Res("SSHWaitExitError", "", NoCode)

\* the wait branch of the select: Ok means "fall through to the confirmation"
WaitBranch(x) ==
    IF x.st = "ioerr" THEN Res("SSHWaitError", "", NoCode)
    ELSE IF x.code = 0 THEN Ok
    ELSE Res("SSHWaitExitError", "", x.code)

\* confirm_profile with `Some(0) | None => ()`
confirm_profile_AbsentCodeOk(p) ==
    IF p.st = "ioerr" THEN Res("SSHConfirmError", "", NoCode)
    ELSE IF p.code <= 0 THEN Ok
    ELSE Res("SSHConfirmExitError", "", p.code)

\* confirm_profile: the outcome of the rm command mapped to its return value
confirm_profile(p) ==
    IF p.st = "ioerr" THEN Res("SSHConfirmError", "", NoCode)
    ELSE IF p.code = 0 THEN Ok
    ELSE Res("SSHConfirmExitError", "", p.code)

\* FinishResult with the `c?` left out
FinishResult_ConfirmIgnored(r) == Ok

\* `c?; ... Ok(())`: a confirmation error is wrapped by #[from]
FinishResult(r) ==
    IF r.tag = "Ok" THEN Ok ELSE Res("ConfirmError", r.tag, r.code)

\* a oneshot send: fails when the receiver is gone
CanSend(ch) == ch.rx = "alive"
Send(ch, v) == [ch EXCEPT !.val = {v}, !.tx = "sent"]
DropTx(ch) == IF ch.tx = "alive" THEN [ch EXCEPT !.tx = "dropped"] ELSE ch
DropRx(ch) == IF ch.rx = "alive" THEN [ch EXCEPT !.rx = "dropped"] ELSE ch
\* a oneshot receiver resolves with the value, or with RecvError once the
\* sender has been dropped without sending
RecvReady(ch) == ch.val # {} \/ ch.tx = "dropped"

Log(e) == Append(events, e)

----------------------------------------------------------------------------
\* deploy_profile, simple mode

RunActivate ==
    /\ pc = "start"
    /\ ~magic_rollback
    /\ ssh_activate' \in {Running, IoErr}
    /\ calls' = [calls EXCEPT !.activate = @ + 1]
    /\ pc' = "simple_status"
    /\ self_activate_command' = build_activate_command(ActivateCommandData)
    /\ UNCHANGED <<inputs, self_wait_command, task, ssh_wait, ssh_confirm, maybe_err,
                   ch_activate, ch_activated, c, result, events>>

SimpleReturn ==
    /\ pc = "simple_status"
    /\ Terminated(ssh_activate)
    /\ result' = SimpleResult(ssh_activate)
    /\ pc' = "done"
    /\ UNCHANGED <<inputs, built, task, ssh_activate, ssh_wait, ssh_confirm,
                   maybe_err, ch_activate, ch_activated, c, calls, events>>

----------------------------------------------------------------------------
\* deploy_profile, magic-rollback mode

\* SpawnActivate with the `?` on the spawn result left out
SpawnActivate_FailureIgnored ==
    /\ pc = "start"
    /\ magic_rollback
    /\ calls' = [calls EXCEPT !.activate = @ + 1]
    /\ \E ok \in BOOLEAN :
        /\ ssh_activate' = IF ok THEN Running ELSE ssh_activate
        /\ pc' = "spawned"
        /\ result' = result
    /\ self_activate_command' = build_activate_command(ActivateCommandData)
    /\ self_wait_command' = build_wait_command(WaitCommandData)
    /\ UNCHANGED <<inputs, task, ssh_wait, ssh_confirm, maybe_err,
                   ch_activate, ch_activated, c, events>>

SpawnActivate ==
    /\ pc = "start"
    /\ magic_rollback
    /\ calls' = [calls EXCEPT !.activate = @ + 1]
    /\ \E ok \in BOOLEAN :
        IF ok
        THEN /\ ssh_activate' = Running
             /\ pc' = "spawned"
             /\ result' = result
        ELSE /\ ssh_activate' = ssh_activate
             /\ pc' = "done"
             /\ result' = Res("SSHSpawnActivateError", "", NoCode)
    /\ self_activate_command' = build_activate_command(ActivateCommandData)
    /\ self_wait_command' = build_wait_command(WaitCommandData)
    /\ UNCHANGED <<inputs, task, ssh_wait, ssh_confirm, maybe_err,
                   ch_activate, ch_activated, c, events>>

\* the two channels, tokio::spawn of the task, and entry into the select,
\* whose first branch starts the wait command
CreateWaiter ==
    /\ pc = "spawned"
    /\ ch_activate' = Channel
    /\ ch_activated' = Channel
    /\ task' = "wait_with_output"
    /\ ssh_wait' \in {Running, IoErr}
    /\ events' = IF ssh_wait' = IoErr THEN Log("wait_exit") ELSE events
    /\ calls' = [calls EXCEPT !.wait = @ + 1]
    /\ pc' = "select"
    /\ UNCHANGED <<inputs, built, ssh_activate, ssh_confirm, maybe_err, c,
                   result>>

\* select!: the wait branch is ready and is the one taken
SelectWait ==
    /\ pc = "select"
    /\ Terminated(ssh_wait)
    /\ ch_activate' = DropRx(ch_activate)
    /\ events' = Log("select_wait")
    /\ IF WaitBranch(ssh_wait) = Ok
       THEN /\ pc' = "confirm"
            /\ UNCHANGED <<result, ch_activated>>
       ELSE /\ pc' = "done"
            /\ result' = WaitBranch(ssh_wait)
            /\ ch_activated' = DropRx(ch_activated)
    /\ UNCHANGED <<inputs, built, task, ssh_activate, ssh_wait, ssh_confirm,
                   maybe_err, c, calls>>

\* select!: the recv_activate branch is ready and is the one taken
SelectRecv ==
    /\ pc = "select"
    /\ RecvReady(ch_activate)
    /\ ch_activate' = DropRx(ch_activate)
    /\ ch_activated' = DropRx(ch_activated)
    /\ events' = Log("select_recv")
    /\ IF ch_activate.val # {}
       THEN /\ result' = CHOOSE x \in ch_activate.val : TRUE
            /\ pc' = "done"
       ELSE /\ result' = result
            /\ pc' = "panicked"
    /\ UNCHANGED <<inputs, built, task, ssh_activate, ssh_wait, ssh_confirm,
                   maybe_err, c, calls>>

\* CallConfirm with recv_activated awaited before confirm_profile is called
CallConfirm_AfterActivated ==
    /\ pc = "confirm"
    /\ ch_activated.val # {}
    /\ ssh_confirm' \in {Running, IoErr}
    /\ calls' = [calls EXCEPT !.confirm = @ + 1]
    /\ pc' = "confirm_status"
    /\ UNCHANGED <<inputs, built, task, ssh_activate, ssh_wait, maybe_err,
                   ch_activate, ch_activated, c, result, events>>

\* the call of confirm_profile, up to `.status()` of the rm command
CallConfirm ==
    /\ pc = "confirm"
    /\ ssh_confirm' \in {Running, IoErr}
    /\ calls' = [calls EXCEPT !.confirm = @ + 1]
    /\ pc' = "confirm_status"
    /\ UNCHANGED <<inputs, built, task, ssh_activate, ssh_wait, maybe_err,
                   ch_activate, ch_activated, c, result, events>>

\* ConfirmReturn with a failed confirmation run again
ConfirmReturn_RetryOnError ==
    /\ pc = "confirm_status"
    /\ Terminated(ssh_confirm)
    /\ IF confirm_profile(ssh_confirm) = Ok
       THEN c' = {Ok} /\ pc' = "recv_activated"
       ELSE c' = c /\ pc' = "confirm"
    /\ UNCHANGED <<inputs, built, task, ssh_activate, ssh_wait, ssh_confirm,
                   maybe_err, ch_activate, ch_activated, result, calls, events>>

ConfirmReturn ==
    /\ pc = "confirm_status"
    /\ Terminated(ssh_confirm)
    /\ c' = {confirm_profile(ssh_confirm)}
    /\ pc' = "recv_activated"
    /\ UNCHANGED <<inputs, built, task, ssh_activate, ssh_wait, ssh_confirm,
                   maybe_err, ch_activate, ch_activated, result, calls, events>>

\* recv_activated.await.unwrap(); c?; Ok(())
RecvActivated ==
    /\ pc = "recv_activated"
    /\ RecvReady(ch_activated)
    /\ ch_activated' = DropRx(ch_activated)
    /\ IF ch_activated.val # {}
       THEN /\ result' = FinishResult(CHOOSE r \in c : TRUE)
            /\ pc' = "done"
       ELSE /\ result' = result
            /\ pc' = "panicked"
    /\ UNCHANGED <<inputs, built, task, ssh_activate, ssh_wait, ssh_confirm,
                   maybe_err, ch_activate, c, calls, events>>

----------------------------------------------------------------------------
\* the activation-awaiting task

TaskWaitWithOutput ==
    /\ task = "wait_with_output"
    /\ Terminated(ssh_activate)
    /\ maybe_err' = TaskMaybeErr(ssh_activate)
    /\ task' = IF TaskMaybeErr(ssh_activate) # {} THEN "send_activate"
               ELSE "send_activated"
    /\ UNCHANGED <<inputs, built, pc, ssh_activate, ssh_wait, ssh_confirm,
                   ch_activate, ch_activated, c, result, calls, events>>

\* send_activate.send(err).unwrap(); a panic unwinds and drops send_activated
TaskSendActivate ==
    /\ task = "send_activate"
    /\ IF CanSend(ch_activate)
       THEN /\ ch_activate' = Send(ch_activate, CHOOSE e \in maybe_err : TRUE)
            /\ ch_activated' = ch_activated
            /\ events' = Log("send_activate")
            /\ task' = "send_activated"
       ELSE /\ ch_activate' = DropTx(ch_activate)
            /\ ch_activated' = DropTx(ch_activated)
            /\ events' = events
            /\ task' = "panicked"
    /\ UNCHANGED <<inputs, built, pc, ssh_activate, ssh_wait, ssh_confirm,
                   maybe_err, c, result, calls>>

\* send_activated.send(()).unwrap(); a panic unwinds and drops send_activate
TaskSendActivated ==
    /\ task = "send_activated"
    /\ IF CanSend(ch_activated)
       THEN /\ ch_activated' = Send(ch_activated, "unit")
            /\ ch_activate' = ch_activate
            /\ task' = "end"
       ELSE /\ ch_activated' = DropTx(ch_activated)
            /\ ch_activate' = DropTx(ch_activate)
            /\ task' = "panicked"
    /\ UNCHANGED <<inputs, built, pc, ssh_activate, ssh_wait, ssh_confirm,
                   maybe_err, c, result, calls, events>>

\* the async block ends: an unused send_activate is dropped
TaskEnd ==
    /\ task = "end"
    /\ ch_activate' = DropTx(ch_activate)
    /\ task' = "finished"
    /\ UNCHANGED <<inputs, built, pc, ssh_activate, ssh_wait, ssh_confirm,
                   maybe_err, ch_activated, c, result, calls, events>>

----------------------------------------------------------------------------
\* the remote processes

ActivateExit ==
    /\ ssh_activate.st = "running"
    /\ ssh_activate' \in Outcomes
    /\ events' = Log("activate_exit")
    /\ UNCHANGED <<inputs, built, pc, task, ssh_wait, ssh_confirm, maybe_err,
                   ch_activate, ch_activated, c, result, calls>>

\* the wait command's exit is observable only while the select holds its future
WaitExit ==
    /\ ssh_wait.st = "running"
    /\ pc = "select"
    /\ ssh_wait' \in Outcomes
    /\ events' = Log("wait_exit")
    /\ UNCHANGED <<inputs, built, pc, task, ssh_activate, ssh_confirm,
                   maybe_err, ch_activate, ch_activated, c, result, calls>>

ConfirmExit ==
    /\ ssh_confirm.st = "running"
    /\ ssh_confirm' \in Outcomes
    /\ UNCHANGED <<inputs, built, pc, task, ssh_activate, ssh_wait, maybe_err,
                   ch_activate, ch_activated, c, result, calls, events>>

----------------------------------------------------------------------------
Next ==
    \/ RunActivate
    \/ SimpleReturn
    \/ SpawnActivate
    \/ CreateWaiter
    \/ SelectWait
    \/ SelectRecv
    \/ CallConfirm
    \/ ConfirmReturn
    \/ RecvActivated
    \/ TaskWaitWithOutput
    \/ TaskSendActivate
    \/ TaskSendActivated
    \/ TaskEnd
    \/ ActivateExit
    \/ WaitExit
    \/ ConfirmExit

Spec == Init /\ [][Next]_vars

\* the builders alone, on every combination of their option values
NextBuilders ==
    \/ RunActivate
    \/ SpawnActivate

SpecBuilders == InitBuilders /\ [][NextBuilders]_vars

----------------------------------------------------------------------------
\* Vocabulary of the properties

\* position of the first occurrence of e in the history, 0 when absent
Pos(e) ==
    IF \E i \in 1..Len(events) : events[i] = e
    THEN CHOOSE i \in 1..Len(events) :
            events[i] = e /\ \A j \in 1..(i - 1) : events[j] # e
    ELSE 0

\* a happened, and b had not happened by then
Before(a, b) == Pos(a) > 0 /\ (Pos(b) = 0 \/ Pos(a) < Pos(b))

ActivateFailed ==
    \/ ssh_activate.st = "ioerr"
    \/ ssh_activate.st = "exited" /\ ssh_activate.code # 0

ActivationFailure == {"SSHActivateExitError", "SSHActivateError"}

Returned == pc = "done"
Ended == pc \in {"done", "panicked"}

----------------------------------------------------------------------------
\* C1: in magic-rollback mode, when the activate process fails before the
\* wait command has resolved, deploy_profile returns SSHActivateExitError or
\* SSHActivateError and confirm_profile is never invoked.  The failure is
\* counted from the moment the task has delivered it on send_activate, the
\* latest moment at which it can be said to have happened.
C1_ActivationFailurePreempts ==
    (magic_rollback /\ ActivateFailed /\ Before("send_activate", "wait_exit"))
        => /\ calls.confirm = 0
           /\ Ended => (Returned /\ result.tag \in ActivationFailure)

\* C2: in magic-rollback mode, when the activate process fails only after the
\* wait branch has won the select with exit code 0, deploy_profile still ends
\* by returning that activation failure.
C2_LateActivationFailureReturned ==
    (/\ magic_rollback
     /\ ActivateFailed
     /\ ssh_wait = Exited(0)
     /\ Before("select_wait", "activate_exit")
     /\ Ended)
        => (Returned /\ result \in TaskMaybeErr(ssh_activate))

\* C3: an activate process that exits with code 0 does not decide the race:
\* the select is left through its recv_activate branch only after an
\* activation failure.
C3_ActivateSuccessDoesNotDecide ==
    Pos("select_recv") > 0 => ActivateFailed

\* C4: in magic-rollback mode, whenever the wait command exits 0 and the
\* activate process exits 0, in either order, confirm_profile is invoked
\* exactly once during the call.
C4_ConfirmExactlyOnce ==
    (/\ magic_rollback
     /\ Ended
     /\ ssh_wait = Exited(0)
     /\ ssh_activate = Exited(0))
        => calls.confirm = 1

\* C5: in magic-rollback mode, once the activate process has been spawned,
\* deploy_profile does not return before the activation-awaiting task has
\* observed the process's termination; neither is still running at return.
C5_NoReturnBeforeActivationDrained ==
    (magic_rollback /\ Returned /\ ssh_activate.st # "idle")
        => /\ Terminated(ssh_activate)
           /\ task \in {"end", "finished", "panicked"}

\* C6: every deploy_profile call ends by returning exactly one outcome, Ok or
\* one DeployProfileError; no interleaving makes it panic.
C6_AlwaysOneOutcome ==
    /\ pc # "panicked"
    /\ Returned <=> result # Pending

\* C7: in magic-rollback mode, when confirm_profile is invoked and the rm
\* command exits non-zero while the activate process and the wait command
\* both exit 0, deploy_profile returns ConfirmError wrapping
\* SSHConfirmExitError with that code.
C7_ConfirmFailureReturned ==
    (/\ Ended
     /\ calls.confirm > 0
     /\ ssh_confirm.st = "exited" /\ ssh_confirm.code # 0
     /\ ssh_activate = Exited(0)
     /\ ssh_wait = Exited(0))
        => /\ Returned
           /\ result = Res("ConfirmError", "SSHConfirmExitError", ssh_confirm.code)

C7_Witness ==
    /\ Returned
    /\ calls.confirm = 1
    /\ ssh_confirm = Exited(1)
    /\ ssh_activate = Exited(0)
    /\ ssh_wait = Exited(0)
    /\ result.tag = "ConfirmError"

\* C8: confirm_profile is invoked only in magic-rollback mode and only after
\* the wait command has exited with code 0: never in simple mode, after a
\* spawn failure, after a wait-command failure, or after the recv_activate
\* branch has won the select.
C8_ConfirmOnlyAfterWaitSuccess ==
    /\ calls.confirm > 0
        => /\ magic_rollback
           /\ ssh_activate.st # "idle"
           /\ ssh_wait = Exited(0)
           /\ Pos("select_wait") > Pos("wait_exit")
           /\ Pos("select_recv") = 0
    /\ (\/ ~magic_rollback
        \/ result.tag \in {"SSHSpawnActivateError", "SSHWaitError",
                           "SSHWaitExitError"}
        \/ Pos("select_recv") > 0)
        => (calls.confirm = 0 /\ ssh_confirm = Idle)

C8_Witness ==
    /\ calls.confirm = 1
    /\ ssh_confirm.st = "running"
    /\ ssh_wait = Exited(0)

\* C9: with magic-rollback disabled, deploy_profile runs the activate command
\* once and returns Ok iff it exited with code 0; another or an absent code
\* gives SSHActivateExitError(code), a failure to run ssh SSHActivateError;
\* no wait command is issued and confirm_profile is not invoked.
C9_SimpleMode ==
    ~magic_rollback
        => /\ calls.wait = 0 /\ ssh_wait = Idle
           /\ calls.confirm = 0 /\ ssh_confirm = Idle
           /\ task = "none"
           /\ pc # "panicked"
           /\ Returned =>
                /\ calls.activate = 1
                /\ result = Ok <=> ssh_activate = Exited(0)
                /\ ssh_activate.st = "ioerr"
                     => result = Res("SSHActivateError", "", NoCode)
                /\ (ssh_activate.st = "exited" /\ ssh_activate.code # 0)
                     => result = Res("SSHActivateExitError", "", ssh_activate.code)

C9_Witness ==
    /\ ~magic_rollback
    /\ Returned
    /\ ssh_activate = Exited(NoCode)
    /\ result = Res("SSHActivateExitError", "", NoCode)

\* C10: confirm_profile returns Ok iff the rm command was run and exited with
\* code 0; a failure to run ssh gives SSHConfirmError, a non-zero or absent
\* exit code SSHConfirmExitError carrying that optional code.
C10_ConfirmProfileResult ==
    \A r \in c :
        /\ Terminated(ssh_confirm)
        /\ r = Ok <=> ssh_confirm = Exited(0)
        /\ ssh_confirm.st = "ioerr" => r = Res("SSHConfirmError", "", NoCode)
        /\ (ssh_confirm.st = "exited" /\ ssh_confirm.code # 0)
             => r = Res("SSHConfirmExitError", "", ssh_confirm.code)

C10_Witness ==
    /\ c = {Res("SSHConfirmExitError", "", NoCode)}
    /\ ssh_confirm = Exited(NoCode)

\* C11: within one deploy_profile call nothing is retried: the activate
\* command is started at most once, the wait command is run at most once and
\* the confirmation rm command is run at most once, whatever the outcomes.
C11_NothingRetried ==
    /\ calls.activate <= 1
    /\ calls.wait <= 1
    /\ calls.confirm <= 1
    /\ Ended => calls.activate = 1

C11_Witness ==
    /\ Returned
    /\ calls = [activate |-> 1, wait |-> 1, confirm |-> 1]
    /\ result.tag = "ConfirmError"

----------------------------------------------------------------------------
\* Vocabulary of the properties of the builders

\* position of the first occurrence of piece a in cmd, 0 when absent
At(cmd, a) ==
    IF \E i \in 1..Len(cmd) : cmd[i] = a
    THEN CHOOSE i \in 1..Len(cmd) :
            cmd[i] = a /\ \A j \in 1..(i - 1) : cmd[j] # a
    ELSE 0

Has(cmd, a) == At(cmd, a) > 0

Count(cmd, a) == Cardinality({i \in 1..Len(cmd) : cmd[i] = a})

\* the pieces of cmd from position i on start with the pieces of part
StartsAt(cmd, i, part) ==
    /\ i >= 1
    /\ i + Len(part) - 1 <= Len(cmd)
    /\ SubSeq(cmd, i, i + Len(part) - 1) = part

\* the present ones of the given literal pieces occur once each, in the
\* order of the list
InOrder(cmd, parts) ==
    /\ \A i \in 1..Len(parts) : Count(cmd, parts[i]) <= 1
    /\ \A i, j \in 1..Len(parts) :
        (i < j /\ Has(cmd, parts[i]) /\ Has(cmd, parts[j]))
            => At(cmd, parts[i]) < At(cmd, parts[j])

\* the literal pieces of a command
Literals(cmd) == {cmd[i] : i \in {k \in 1..Len(cmd) : cmd[k].lit}}

Flag(b) == IF b THEN 1 ELSE 0

\* C12: build_activate_command's output contains --debug-logs iff debug_logs
\* is set, --log-dir <dir> iff log_dir is present, --magic-rollback iff
\* magic_rollback is set and --auto-rollback iff auto_rollback is set, and
\* the parts present appear in the fixed order: <closure>/activate-rs,
\* --debug-logs, --log-dir <dir>, --temp-path '<temp>' activate '<closure>'
\* '<profile_path>', --confirm-timeout <n>, --magic-rollback,
\* --auto-rollback, whichever optional parts are present.
C12_ActivateCommandShape ==
    self_activate_command # <<>> =>
        LET cmd == self_activate_command
            d == ActivateCommandData
        IN  /\ Has(cmd, Lit(" --debug-logs")) <=> d.debug_logs
            /\ Has(cmd, Lit(" --log-dir ")) <=> d.log_dir # {}
            /\ \A dir \in d.log_dir :
                StartsAt(cmd, At(cmd, Lit(" --log-dir ")),
                         <<Lit(" --log-dir "), Arg(dir)>>)
            /\ Has(cmd, Lit(" --magic-rollback")) <=> d.magic_rollback
            /\ Has(cmd, Lit(" --auto-rollback")) <=> d.auto_rollback
            /\ StartsAt(cmd, At(cmd, Lit("/activate-rs")) - 1,
                        <<Arg(d.closure), Lit("/activate-rs")>>)
            /\ StartsAt(cmd, At(cmd, Lit(" --temp-path '")),
                        <<Lit(" --temp-path '"), Arg(d.temp_path),
                          Lit("' activate '"), Arg(d.closure),
                          Lit("' '"), Arg(d.profile_path), Lit("'")>>)
            /\ StartsAt(cmd, At(cmd, Lit(" --confirm-timeout ")),
                        <<Lit(" --confirm-timeout "),
                          Arg(ToString(d.confirm_timeout))>>)
            /\ InOrder(cmd, <<Lit("/activate-rs"), Lit(" --debug-logs"),
                              Lit(" --log-dir "), Lit(" --temp-path '"),
                              Lit(" --confirm-timeout "),
                              Lit(" --magic-rollback"),
                              Lit(" --auto-rollback")>>)
            /\ Len(cmd) = 2 * Flag(d.sudo # {}) + 2 + Flag(d.debug_logs)
                          + 2 * Flag(d.log_dir # {}) + 7 + 2
                          + Flag(d.magic_rollback) + Flag(d.auto_rollback)

C12_Witness ==
    /\ self_activate_command # <<>>
    /\ ~deploy_data.debug_logs
    /\ deploy_data.log_dir # {}
    /\ magic_rollback /\ auto_rollback
    /\ Has(self_activate_command, Lit(" --log-dir "))
    /\ ~Has(self_activate_command, Lit(" --debug-logs"))

\* C13: for both builders, with a sudo prefix the output is the prefix, one
\* space, then what the same builder returns for the same options without a
\* prefix; without a prefix nothing is prepended.
C13_SudoPrefix ==
    /\ self_activate_command # <<>> =>
        /\ \A sudo \in deploy_defs.sudo :
            self_activate_command = <<Arg(sudo), Lit(" ")>> \o
                build_activate_command([ActivateCommandData EXCEPT !.sudo = {}])
        /\ deploy_defs.sudo = {} =>
            StartsAt(self_activate_command, 1,
                     <<Arg(deploy_data.closure), Lit("/activate-rs")>>)
    /\ self_wait_command # <<>> =>
        /\ \A sudo \in deploy_defs.sudo :
            self_wait_command = <<Arg(sudo), Lit(" ")>> \o
                build_wait_command([WaitCommandData EXCEPT !.sudo = {}])
        /\ deploy_defs.sudo = {} =>
            StartsAt(self_wait_command, 1,
                     <<Arg(deploy_data.closure), Lit("/activate-rs")>>)

C13_Witness ==
    /\ deploy_defs.sudo = {"sudo -u test"}
    /\ StartsAt(self_activate_command, 1,
                <<Arg("sudo -u test"), Lit(" "), Arg(deploy_data.closure)>>)
    /\ StartsAt(self_wait_command, 1,
                <<Arg("sudo -u test"), Lit(" "), Arg(deploy_data.closure)>>)

\* C14: build_wait_command's output never contains --confirm-timeout,
\* --magic-rollback or --auto-rollback among the pieces the builder adds; it
\* consists only of the optional sudo prefix, <closure>/activate-rs, optional
\* --debug-logs, optional --log-dir <dir> and the mandatory segment
\* --temp-path '<temp>' wait '<closure>', in that order.
C14_WaitCommandShape ==
    self_wait_command # <<>> =>
        LET cmd == self_wait_command
            d == WaitCommandData
        IN  /\ Literals(cmd) \cap {Lit(" --confirm-timeout "),
                                   Lit(" --magic-rollback"),
                                   Lit(" --auto-rollback")} = {}
            /\ Has(cmd, Lit(" --debug-logs")) <=> d.debug_logs
            /\ Has(cmd, Lit(" --log-dir ")) <=> d.log_dir # {}
            /\ \A dir \in d.log_dir :
                StartsAt(cmd, At(cmd, Lit(" --log-dir ")),
                         <<Lit(" --log-dir "), Arg(dir)>>)
            /\ StartsAt(cmd, At(cmd, Lit("/activate-rs")) - 1,
                        <<Arg(d.closure), Lit("/activate-rs")>>)
            /\ StartsAt(cmd, At(cmd, Lit(" --temp-path '")),
                        <<Lit(" --temp-path '"), Arg(d.temp_path),
                          Lit("' wait '"), Arg(d.closure), Lit("'")>>)
            /\ At(cmd, Lit(" --temp-path '")) + 4 = Len(cmd)
            /\ InOrder(cmd, <<Lit(" "), Lit("/activate-rs"),
                              Lit(" --debug-logs"), Lit(" --log-dir "),
                              Lit(" --temp-path '")>>)
            /\ Len(cmd) = 2 * Flag(d.sudo # {}) + 2 + Flag(d.debug_logs)
                          + 2 * Flag(d.log_dir # {}) + 5

C14_Witness ==
    /\ self_wait_command # <<>>
    /\ deploy_defs.sudo = {}
    /\ deploy_data.debug_logs
    /\ deploy_data.log_dir = {}
    /\ Has(self_activate_command, Lit(" --magic-rollback"))
    /\ Has(self_activate_command, Lit(" --auto-rollback"))
    /\ Len(self_wait_command) = 8

----------------------------------------------------------------------------
\* C15: in magic-rollback mode, once the wait branch has been left with exit
\* code 0, confirm_profile starts without the activate process having to
\* terminate; the activation-terminated notification is awaited only after
\* confirm_profile has finished, so an activate process that exits only
\* after the confirmation cannot block the call.
C15_ConfirmBeforeActivationDrained ==
    /\ pc = "confirm" => ENABLED CallConfirm
    /\ (pc = "confirm_status" /\ Terminated(ssh_confirm)) => ENABLED ConfirmReturn
    /\ pc = "recv_activated" => (c # {} /\ Terminated(ssh_confirm))
    /\ (pc \in {"confirm", "confirm_status"}) => ch_activated.rx = "alive"
    /\ ~Ended => ENABLED Next

C15_Witness ==
    /\ pc = "recv_activated"
    /\ c = {Ok}
    /\ ssh_activate.st = "running"
    /\ task = "wait_with_output"

\* C16: in magic-rollback mode, when the wait branch wins the select with a
\* non-zero or absent exit code, deploy_profile returns SSHWaitExitError(code);
\* when the wait command could not be run it returns SSHWaitError; in both
\* cases confirm_profile is not invoked.
C16_WaitFailureReturned ==
    (Pos("select_wait") > 0 /\ ssh_wait # Exited(0))
        => /\ Returned
           /\ calls.confirm = 0 /\ ssh_confirm = Idle
           /\ ssh_wait.st = "ioerr" => result = Res("SSHWaitError", "", NoCode)
           /\ ssh_wait.st = "exited"
                => result = Res("SSHWaitExitError", "", ssh_wait.code)

C16_Witness ==
    /\ Returned
    /\ ssh_wait = Exited(1)
    /\ result = Res("SSHWaitExitError", "", 1)
    /\ ssh_activate.st = "running"

\* C17: in magic-rollback mode deploy_profile returns Ok(()) only if the
\* activate process, the wait command and the confirmation rm command all
\* exited with code 0 during the call.
C17_OkOnlyIfAllSucceeded ==
    (magic_rollback /\ Returned /\ result = Ok)
        => /\ ssh_activate = Exited(0)
           /\ ssh_wait = Exited(0)
           /\ ssh_confirm = Exited(0)

\* C18: the task's two oneshot sends never fail: the receiver still exists
\* whenever the task sends on send_activate or on send_activated, so neither
\* unwrap() panics.
C18_SendsNeverFail ==
    task # "panicked"

\* C19: in magic-rollback mode, when spawning the activate process fails,
\* deploy_profile returns SSHSpawnActivateError at once: no task is created,
\* the wait command is never run and confirm_profile is never invoked.
C19_SpawnFailure ==
    /\ (magic_rollback /\ pc # "start" /\ ssh_activate = Idle)
        => (Returned /\ result = Res("SSHSpawnActivateError", "", NoCode))
    /\ result.tag = "SSHSpawnActivateError"
        => /\ Returned
           /\ task = "none"
           /\ ch_activate = NoChannel /\ ch_activated = NoChannel
           /\ calls.wait = 0 /\ ssh_wait = Idle
           /\ calls.confirm = 0 /\ ssh_confirm = Idle

C19_Witness ==
    /\ Returned
    /\ result = Res("SSHSpawnActivateError", "", NoCode)
    /\ calls.activate = 1

\* C20: a value the merged settings leave unset is taken as temp path /tmp,
\* confirm timeout 30, magic-rollback true, auto-rollback true; a call with
\* magic_rollback unset runs the magic-rollback protocol, not simple mode;
\* a value that is set is used unchanged.
C20_Defaults ==
    self_activate_command # <<>> =>
        LET cmd == self_activate_command
            ms == merged_settings
        IN  /\ StartsAt(cmd, At(cmd, Lit(" --temp-path '")),
                    <<Lit(" --temp-path '"),
                      Arg(IF ms.temp_path = {} THEN "/tmp"
                          ELSE CHOOSE t \in ms.temp_path : TRUE)>>)
            /\ StartsAt(cmd, At(cmd, Lit(" --confirm-timeout ")),
                    <<Lit(" --confirm-timeout "),
                      Arg(IF ms.confirm_timeout = {} THEN "30"
                          ELSE ToString(CHOOSE n \in ms.confirm_timeout : TRUE))>>)
            /\ Has(cmd, Lit(" --magic-rollback")) <=> ms.magic_rollback # {FALSE}
            /\ Has(cmd, Lit(" --auto-rollback")) <=> ms.auto_rollback # {FALSE}
            /\ ms.magic_rollback # {FALSE}
                => /\ pc # "simple_status"
                   /\ self_wait_command # <<>>
                   /\ (ssh_activate # Idle /\ pc # "spawned") => calls.wait = 1
                   /\ (Returned /\ result = Ok) => calls.confirm = 1
            /\ ms.magic_rollback = {FALSE}
                => /\ self_wait_command = <<>>
                   /\ calls.wait = 0 /\ calls.confirm = 0 /\ task = "none"

C20_Witness ==
    /\ merged_settings = [temp_path |-> {}, confirm_timeout |-> {},
                          magic_rollback |-> {}, auto_rollback |-> {}]
    /\ Returned
    /\ result = Ok
    /\ calls = [activate |-> 1, wait |-> 1, confirm |-> 1]
    /\ Has(self_activate_command, Arg("/tmp"))
    /\ Has(self_activate_command, Arg("30"))

====
